---- MODULE Spec2Model ----
(***************************************************************************)
(* Video acquisition workflow of the heart-health client:                  *)
(*   - VideoUpload  (src/src/components/VideoUpload.tsx): validateFile,    *)
(*     handleFile, handleDrag, handleDrop, handleChange;                   *)
(*   - RecordingPage (src/unnamed/part_000): mode selection, the two       *)
(*     acquisition callbacks, handleProcess (the asynchronous pipeline),   *)
(*     handleReset and the render guards that decide which controls exist. *)
(*                                                                         *)
(* Three specifications share the variables:                               *)
(*   Spec          RecordingPage hosting VideoUpload and the recorder;     *)
(*   UploaderSpec  one VideoUpload instance kept mounted by its parent;    *)
(*   ValidateSpec  validateFile applied to every candidate file.           *)
(* LiveSpec is Spec with the fairness of the event loop and of the remote  *)
(* calls (every pending promise settles, every armed timer fires).         *)
(***************************************************************************)
EXTENDS Integers, Sequences, FiniteSets, Bags, TLC

VARIABLES
    page,            \* the page the application shows: "record" while RecordingPage is mounted
    session,         \* number of the mounted (or last mounted) RecordingPage instance
    user,            \* useAuth().user: NULL or a user id
    mode,            \* useState 'select' | 'record' | 'upload'
    videoBlob,       \* useState<Blob | null>
    videoFile,       \* useState<File | null>
    uploading,       \* useState(false)
    uploadComplete,  \* useState(false)
    recordingId,     \* useState<string | null>, 0 is null
    runs,            \* every handleProcess invocation that got past its guards
    db,              \* rows written through HealthMonitoringAPI
    alerts,          \* the text of the last alert() shown, NULL before the first
    caught,          \* the value the last catch clause of handleProcess bound
    navCalls,        \* bag of the calls of onNavigate made by the page
    widget,          \* VideoUpload state: dragActive, error, selectedFile
    emitted,         \* UploaderSpec: files the widget passed to onFileSelect
    arrivals,        \* UploaderSpec: file lists that arrived by drop or dialog
    candidate,       \* ValidateSpec: the file under validation
    verdict,         \* ValidateSpec: what validateFile returned, NoVerdict before the call
    invoked,         \* calls made so far of handleProcess (page) or validateFile (ValidateSpec)
    lastDrag         \* UploaderSpec: type of the last drag event the widget handled, NULL before

vars == <<page, session, user, mode, videoBlob, videoFile, uploading, uploadComplete,
          recordingId, runs, db, alerts, caught, navCalls, widget, emitted, arrivals,
          candidate, verdict, invoked, lastDrag>>

pageVars == <<page, session, user, mode, videoBlob, videoFile, uploading, uploadComplete,
              recordingId, runs, db, alerts, caught, navCalls>>

NULL == "null"

NoFile == [type |-> NULL, name |-> <<>>, size |-> 0]

NoBlob == [size |-> 0, type |-> NULL]

NoVerdict == [ok |-> FALSE, error |-> "not validated"]

(***************************************************************************)
(* Bounds of the model.                                                    *)
(***************************************************************************)
MaxRuns == 2        \* handleProcess invocations followed
MaxSessions == 1    \* RecordingPage instances mounted one after the other
MaxArrivals == 3    \* file arrivals followed at a stand-alone VideoUpload
MaxValidations == 2 \* validateFile calls followed on one candidate file

(***************************************************************************)
(* Files.  A name is the sequence of its characters, so that the regular   *)
(* expression of validateFile is matched the way the engine matches it.    *)
(***************************************************************************)
MiB == 1024 * 1024

maxSize == 100 * 1024 * 1024

validTypes == {"video/mp4", "video/webm", "video/quicktime", "video/x-msvideo"}

validExtensions ==
    { <<"m","p","4">>, <<"w","e","b","m">>, <<"m","o","v">>, <<"a","v","i">> }

FormatError == "Please upload a valid video file (MP4, WebM, MOV, or AVI)"

SizeError == "Video file must be less than 100MB"

Types == validTypes \cup {"text/plain", ""}

Names ==
    { <<"c","l","i","p",".","m","p","4">>,
      <<"c",".","W","e","b","M">>,
      <<"c","l","i","p",".","m","o","v">>,
      <<"C",".","A","V","I">>,
      <<"n","o","t","e","s",".","t","x","t">>,
      <<"m","p","4">>,
      <<"c",".","m","p","4",".","t","x","t">>,
      <<"c",".","m","p","4","v">> }

Sizes == {50 * MiB, maxSize, maxSize + 1, 150 * MiB}

Files == [type : Types, name : Names, size : Sizes]

\* the i flag of the regular expression: letters compare by their lower case
Lower(c) ==
    CASE c = "A" -> "a" [] c = "B" -> "b" [] c = "C" -> "c" [] c = "E" -> "e"
      [] c = "I" -> "i" [] c = "M" -> "m" [] c = "O" -> "o" [] c = "P" -> "p"
      [] c = "V" -> "v" [] c = "W" -> "w" [] OTHER -> c

\* the same match without the i flag
MatchesExtension_CaseSensitive(name) ==
    \E ext \in validExtensions :
        /\ Len(name) >= Len(ext) + 1
        /\ name[Len(name) - Len(ext)] = "."
        /\ \A i \in 1..Len(ext) : name[Len(name) - Len(ext) + i] = ext[i]

\* name.match(/\.(mp4|webm|mov|avi)$/i)
MatchesExtension(name) ==
    \E ext \in validExtensions :
        /\ Len(name) >= Len(ext) + 1
        /\ name[Len(name) - Len(ext)] = "."
        /\ \A i \in 1..Len(ext) : Lower(name[Len(name) - Len(ext) + i]) = ext[i]

\* validateFile without its size check
validateFile_NoSizeCheck(file) ==
    IF file.type \notin validTypes /\ ~MatchesExtension(file.name)
    THEN [ok |-> FALSE, error |-> FormatError]
    ELSE [ok |-> TRUE, error |-> NULL]

\* validateFile with its two checks in the other order
validateFile_SizeFirst(file) ==
    IF file.size > maxSize
    THEN [ok |-> FALSE, error |-> SizeError]
    ELSE IF file.type \notin validTypes /\ ~MatchesExtension(file.name)
         THEN [ok |-> FALSE, error |-> FormatError]
         ELSE [ok |-> TRUE, error |-> NULL]

\* validateFile: the boolean it returns and the error it leaves (setError)
validateFile(file) ==
    IF file.type \notin validTypes /\ ~MatchesExtension(file.name)
    THEN [ok |-> FALSE, error |-> FormatError]
    ELSE IF file.size > maxSize
         THEN [ok |-> FALSE, error |-> SizeError]
         ELSE [ok |-> TRUE, error |-> NULL]

(***************************************************************************)
(* VideoUpload.  Each handler maps the widget state to the state it leaves *)
(* and the calls of onFileSelect it makes.                                 *)
(***************************************************************************)
WidgetInit == [dragActive |-> FALSE, error |-> NULL, selectedFile |-> NoFile]

\* handleFile that hands the file on whatever validateFile returned
handleFile_IgnoringVerdict(w, file) ==
    LET v == validateFile(file) IN
    [state |-> [w EXCEPT !.error = v.error, !.selectedFile = file], calls |-> <<file>>]

handleFile(w, file) ==
    LET v == validateFile(file) IN
    IF v.ok
    THEN [state |-> [w EXCEPT !.error = v.error, !.selectedFile = file],
          calls |-> <<file>>]
    ELSE [state |-> [w EXCEPT !.error = v.error], calls |-> <<>>]

DragTypes == {"dragenter", "dragover", "dragleave"}

handleDrag(w, type) ==
    IF type \in {"dragenter", "dragover"}
    THEN [w EXCEPT !.dragActive = TRUE]
    ELSE IF type = "dragleave" THEN [w EXCEPT !.dragActive = FALSE] ELSE w

\* handleDrop that reads the last file of the list
handleDrop_LastFile(w, files) ==
    LET w1 == [w EXCEPT !.dragActive = FALSE] IN
    IF Len(files) > 0 THEN handleFile(w1, files[Len(files)])
    ELSE [state |-> w1, calls |-> <<>>]

\* handleDrop that clears dragActive only when it hands a file on
handleDrop_ClearsOnAccept(w, files) ==
    IF Len(files) > 0
    THEN LET out == handleFile(w, files[1]) IN
         [state |-> IF out.calls # <<>> THEN [out.state EXCEPT !.dragActive = FALSE]
                    ELSE out.state,
          calls |-> out.calls]
    ELSE [state |-> w, calls |-> <<>>]

handleDrop(w, files) ==
    LET w1 == [w EXCEPT !.dragActive = FALSE] IN
    IF Len(files) > 0 THEN handleFile(w1, files[1])
    ELSE [state |-> w1, calls |-> <<>>]

handleChange(w, files) ==
    IF Len(files) > 0 THEN handleFile(w, files[1])
    ELSE [state |-> w, calls |-> <<>>]

(***************************************************************************)
(* RecordingPage.                                                          *)
(***************************************************************************)
\* what the recorder hands to onRecordingComplete: a Blob carries the MIME type
\* the MediaRecorder chose, with or without its codecs parameter
Blobs == { [size |-> 3 * MiB, type |-> "video/webm"],
           [size |-> 7 * MiB, type |-> "video/webm;codecs=vp9,opus"] }

\* the files offered to the page's uploader: accepted by type and extension,
\* accepted by extension alone at the size limit, too large, wrong format
PageFiles ==
    { [type |-> "video/mp4", name |-> <<"c","l","i","p",".","m","p","4">>, size |-> 50 * MiB],
      [type |-> "", name |-> <<"c","l","i","p",".","m","p","4">>, size |-> maxSize],
      [type |-> "video/quicktime", name |-> <<"c","l","i","p",".","m","o","v">>, size |-> 150 * MiB],
      [type |-> "text/plain", name |-> <<"n","o","t","e","s",".","t","x","t">>, size |-> 50 * MiB] }

\* what a FileList holds after its first file
ExtraFiles ==
    { [type |-> "video/webm", name |-> <<"c",".","W","e","b","M">>, size |-> 50 * MiB] }

\* a FileList: empty, one file, or several of which the handlers read the first
FileLists(S) ==
    {<<>>} \cup { <<f>> : f \in S } \cup { <<f, g>> : f \in S, g \in ExtraFiles }

\* the lists followed at the page's uploader; lists of several files are
\* followed at the stand-alone widget, whose handlers are the same
PageFileLists == {<<>>} \cup { <<f>> : f \in PageFiles }

Users == {"u1"}

\* what a rejected remote call throws: an Error, or a value that is no Error
Thrown == { [isError |-> TRUE, message |-> "insert failed"],
            [isError |-> FALSE, message |-> "row violates policy"] }

NoThrown == [isError |-> FALSE, message |-> NULL]

SyntheticName == <<"recording-", "Date.now()", ".webm">>

NominalDuration == 60

FreshDb == [profiles |-> {}, recordings |-> {}, heartRate |-> {}, predictions |-> {}]

\* render guards of RecordingPage
SelectionRendered == page = "record" /\ mode = "select"

RecorderRendered ==
    page = "record" /\ mode = "record" /\ videoBlob = NoBlob /\ ~uploadComplete

UploaderRendered ==
    page = "record" /\ mode = "upload" /\ videoFile = NoFile /\ ~uploadComplete

\* the recorded review panel without the !uploadComplete of its guard
RecordedReviewRendered_AlsoWhenComplete == page = "record" /\ videoBlob # NoBlob

RecordedReviewRendered == page = "record" /\ videoBlob # NoBlob /\ ~uploadComplete

UploadedReviewRendered == page = "record" /\ videoFile # NoFile /\ ~uploadComplete

CompleteRendered == page = "record" /\ uploadComplete

\* the review buttons without their disabled attribute
ReviewButtonsEnabled_NeverDisabled ==
    RecordedReviewRendered \/ UploadedReviewRendered

\* both buttons of a review panel carry disabled={uploading}
ReviewButtonsEnabled ==
    (RecordedReviewRendered \/ UploadedReviewRendered) /\ ~uploading

\* a VideoUpload instance lives only while the page renders it; a new instance
\* starts from its useState initial values
WidgetAfter(w, file) == IF file = NoFile THEN w ELSE WidgetInit

setMode(m) ==
    /\ SelectionRendered
    /\ mode' = m
    /\ UNCHANGED <<page, session, user, videoBlob, videoFile, uploading, uploadComplete,
                   recordingId, runs, db, alerts, caught, navCalls, widget, emitted, arrivals,
                   candidate, verdict, invoked, lastDrag>>

handleRecordingComplete(blob) ==
    /\ RecorderRendered
    /\ videoBlob' = blob
    /\ UNCHANGED <<page, session, user, mode, videoFile, uploading, uploadComplete,
                   recordingId, runs, db, alerts, caught, navCalls, widget, emitted, arrivals,
                   candidate, verdict, invoked, lastDrag>>

\* onFileSelect of the page's uploader: handleFileSelect for every call made
handleFileSelect(calls) ==
    videoFile' = IF Len(calls) > 0 THEN calls[Len(calls)] ELSE videoFile

PageDrag(type) ==
    /\ UploaderRendered
    /\ widget' = handleDrag(widget, type)
    /\ UNCHANGED <<pageVars, emitted, arrivals, candidate, verdict, invoked, lastDrag>>

PageDrop(files) ==
    /\ UploaderRendered
    /\ LET out == handleDrop(widget, files) IN
        /\ handleFileSelect(out.calls)
        /\ widget' = WidgetAfter(out.state, videoFile')
    /\ UNCHANGED <<page, session, user, mode, videoBlob, uploading, uploadComplete,
                   recordingId, runs, db, alerts, caught, navCalls, emitted, arrivals,
                   candidate, verdict, invoked, lastDrag>>

PageChange(files) ==
    /\ UploaderRendered
    /\ LET out == handleChange(widget, files) IN
        /\ handleFileSelect(out.calls)
        /\ widget' = WidgetAfter(out.state, videoFile')
    /\ UNCHANGED <<page, session, user, mode, videoBlob, uploading, uploadComplete,
                   recordingId, runs, db, alerts, caught, navCalls, emitted, arrivals,
                   candidate, verdict, invoked, lastDrag>>

\* handleReset without setMode('select')
handleReset_KeepsMode ==
    /\ videoBlob' = NoBlob
    /\ videoFile' = NoFile
    /\ uploadComplete' = FALSE
    /\ mode' = mode
    /\ UNCHANGED <<page, session, user, uploading, recordingId, runs, db, alerts, caught,
                   navCalls, widget, emitted, arrivals, candidate, verdict, invoked, lastDrag>>

\* handleReset without setVideoBlob(null)
handleReset_KeepsBlob ==
    /\ videoBlob' = videoBlob
    /\ videoFile' = NoFile
    /\ uploadComplete' = FALSE
    /\ mode' = "select"
    /\ UNCHANGED <<page, session, user, uploading, recordingId, runs, db, alerts, caught,
                   navCalls, widget, emitted, arrivals, candidate, verdict, invoked, lastDrag>>

\* handleReset without setVideoFile(null)
handleReset_KeepsFile ==
    /\ videoBlob' = NoBlob
    /\ videoFile' = videoFile
    /\ uploadComplete' = FALSE
    /\ mode' = "select"
    /\ UNCHANGED <<page, session, user, uploading, recordingId, runs, db, alerts, caught,
                   navCalls, widget, emitted, arrivals, candidate, verdict, invoked, lastDrag>>

handleReset ==
    /\ videoBlob' = NoBlob
    /\ videoFile' = NoFile
    /\ uploadComplete' = FALSE
    /\ mode' = "select"
    /\ UNCHANGED <<page, session, user, uploading, recordingId, runs, db, alerts, caught,
                   navCalls, widget, emitted, arrivals, candidate, verdict, invoked, lastDrag>>

\* a Retake button that is never disabled
RetakeVideo_NotDisabled ==
    (RecordedReviewRendered \/ UploadedReviewRendered) /\ handleReset

\* the Retake / Choose Different button of either review panel
RetakeVideo == ReviewButtonsEnabled /\ handleReset

(***************************************************************************)
(* handleProcess.  A run is one invocation that got past its two guards;   *)
(* pc names the awaited call, "timer" the armed setTimeout.  A state       *)
(* setter reaches the instance whose closure holds it: it changes the page *)
(* state only while that instance is still the mounted one.                *)
(***************************************************************************)
Awaited == {"ensureUserProfile", "createRecording", "saveHeartRateData", "saveRiskPrediction"}

Live(r) == page = "record" /\ runs[r].session = session

\* fileName = videoFile?.name || `recording-${Date.now()}.webm`
FileNameOf(file) == IF file # NoFile /\ file.name # <<>> THEN file.name ELSE SyntheticName

\* an alert that never shows the message
AlertText_Generic(thrown) == <<"Failed to process video: ", "Unknown error">>

\* error instanceof Error ? error.message : 'Unknown error'
AlertText(thrown) ==
    <<"Failed to process video: ", IF thrown.isError THEN thrown.message ELSE "Unknown error">>

\* handleProcess with the await before ensureUserProfile left out
handleProcess_FirstCallNotAwaited ==
    /\ invoked < MaxRuns
    /\ invoked' = invoked + 1
    /\ IF user = NULL \/ (videoBlob = NoBlob /\ videoFile = NoFile)
       THEN UNCHANGED <<pageVars, widget, emitted, arrivals, candidate, verdict, lastDrag>>
       ELSE /\ uploading' = TRUE
            /\ runs' = Append(runs, [session |-> session, pc |-> "createRecording",
                                     user |-> user, fileName |-> FileNameOf(videoFile),
                                     recId |-> 0,
                                     calls |-> <<"ensureUserProfile", "createRecording">>])
            /\ UNCHANGED <<page, session, user, mode, videoBlob, videoFile, uploadComplete,
                           recordingId, db, alerts, caught, navCalls, widget, emitted, arrivals,
                           candidate, verdict, lastDrag>>

\* handleProcess without its second guard
handleProcess_NoArtifactGuard ==
    /\ invoked < MaxRuns
    /\ invoked' = invoked + 1
    /\ IF user = NULL
       THEN UNCHANGED <<pageVars, widget, emitted, arrivals, candidate, verdict, lastDrag>>
       ELSE /\ uploading' = TRUE
            /\ runs' = Append(runs, [session |-> session, pc |-> "ensureUserProfile",
                                     user |-> user, fileName |-> FileNameOf(videoFile),
                                     recId |-> 0,
                                     calls |-> <<"ensureUserProfile">>])
            /\ UNCHANGED <<page, session, user, mode, videoBlob, videoFile, uploadComplete,
                           recordingId, db, alerts, caught, navCalls, widget, emitted, arrivals,
                           candidate, verdict, lastDrag>>

\* handleProcess without its first guard
handleProcess_NoUserGuard ==
    /\ invoked < MaxRuns
    /\ invoked' = invoked + 1
    /\ IF videoBlob = NoBlob /\ videoFile = NoFile
       THEN UNCHANGED <<pageVars, widget, emitted, arrivals, candidate, verdict, lastDrag>>
       ELSE /\ uploading' = TRUE
            /\ runs' = Append(runs, [session |-> session, pc |-> "ensureUserProfile",
                                     user |-> user, fileName |-> FileNameOf(videoFile),
                                     recId |-> 0,
                                     calls |-> <<"ensureUserProfile">>])
            /\ UNCHANGED <<page, session, user, mode, videoBlob, videoFile, uploadComplete,
                           recordingId, db, alerts, caught, navCalls, widget, emitted, arrivals,
                           candidate, verdict, lastDrag>>

handleProcess ==
    /\ invoked < MaxRuns
    /\ invoked' = invoked + 1
    /\ IF user = NULL \/ (videoBlob = NoBlob /\ videoFile = NoFile)
       THEN UNCHANGED <<pageVars, widget, emitted, arrivals, candidate, verdict, lastDrag>>
       ELSE /\ uploading' = TRUE
            /\ runs' = Append(runs, [session |-> session, pc |-> "ensureUserProfile",
                                     user |-> user, fileName |-> FileNameOf(videoFile),
                                     recId |-> 0,
                                     calls |-> <<"ensureUserProfile">>])
            /\ UNCHANGED <<page, session, user, mode, videoBlob, videoFile, uploadComplete,
                           recordingId, db, alerts, caught, navCalls, widget, emitted, arrivals,
                           candidate, verdict, lastDrag>>

\* the Analyze Video button of either review panel
AnalyzeVideo == ReviewButtonsEnabled /\ handleProcess

\* the catch clause with no finally clause after it
Catch_WithoutFinally(r, thrown, called) ==
    /\ runs' = [runs EXCEPT ![r].pc = "failed", ![r].calls = @ \o called]
    /\ caught' = thrown
    /\ alerts' = AlertText(thrown)
    /\ UNCHANGED <<page, session, user, mode, videoBlob, videoFile, uploading,
                   uploadComplete, recordingId, navCalls, widget, emitted, arrivals,
                   candidate, verdict, invoked, lastDrag>>

\* a catch clause that marks the upload complete all the same
Catch_MarksComplete(r, thrown, called) ==
    /\ runs' = [runs EXCEPT ![r].pc = "failed", ![r].calls = @ \o called]
    /\ caught' = thrown
    /\ alerts' = AlertText(thrown)
    /\ uploading' = IF Live(r) THEN FALSE ELSE uploading
    /\ uploadComplete' = IF Live(r) THEN TRUE ELSE uploadComplete
    /\ UNCHANGED <<page, session, user, mode, videoBlob, videoFile, recordingId,
                   navCalls, widget, emitted, arrivals, candidate, verdict, invoked,
                   lastDrag>>

\* catch: console.error, alert; finally: setUploading(false)
Catch(r, thrown, called) ==
    /\ runs' = [runs EXCEPT ![r].pc = "failed", ![r].calls = @ \o called]
    /\ caught' = thrown
    /\ alerts' = AlertText(thrown)
    /\ uploading' = IF Live(r) THEN FALSE ELSE uploading
    /\ UNCHANGED <<page, session, user, mode, videoBlob, videoFile, uploadComplete,
                   recordingId, navCalls, widget, emitted, arrivals, candidate, verdict, invoked, lastDrag>>

\* a catch clause that deletes the recording the failed run created
Rejected_RollsBack(r, thrown) ==
    /\ r \in DOMAIN runs
    /\ runs[r].pc \in Awaited
    /\ Catch(r, thrown, <<>>)
    /\ db' = [db EXCEPT !.recordings = { row \in @ : row.id # runs[r].recId },
                        !.heartRate = @ \ {runs[r].recId}]

\* an awaited call rejects: nothing is written, the rest of the try block is skipped
Rejected(r, thrown) ==
    /\ r \in DOMAIN runs
    /\ runs[r].pc \in Awaited
    /\ Catch(r, thrown, <<>>)
    /\ UNCHANGED db

ensureUserProfileResolved(r) ==
    /\ r \in DOMAIN runs
    /\ runs[r].pc = "ensureUserProfile"
    /\ db' = [db EXCEPT !.profiles = @ \cup {runs[r].user}]
    /\ runs' = [runs EXCEPT ![r].pc = "createRecording",
                            ![r].calls = Append(@, "createRecording")]
    /\ UNCHANGED <<page, session, user, mode, videoBlob, videoFile, uploading,
                   uploadComplete, recordingId, alerts, caught, navCalls, widget, emitted,
                   arrivals, candidate, verdict, invoked, lastDrag>>

\* createRecording resolves with the new row; the two simulate* calls run in the
\* same turn and the first awaited save is started
createRecordingResolved(r) ==
    /\ r \in DOMAIN runs
    /\ runs[r].pc = "createRecording"
    /\ LET id == Cardinality(db.recordings) + 1 IN
        /\ db' = [db EXCEPT !.recordings = @ \cup
                     {[id |-> id, user_id |-> runs[r].user,
                       file_name |-> runs[r].fileName,
                       duration |-> NominalDuration]}]
        /\ runs' = [runs EXCEPT ![r].pc = "saveHeartRateData", ![r].recId = id,
                                ![r].calls = @ \o <<"simulateHeartRateData",
                                                    "simulateRiskPrediction",
                                                    "saveHeartRateData">>]
    /\ UNCHANGED <<page, session, user, mode, videoBlob, videoFile, uploading,
                   uploadComplete, recordingId, alerts, caught, navCalls, widget, emitted,
                   arrivals, candidate, verdict, invoked, lastDrag>>

\* createRecording resolves and one of the two synchronous simulate* calls throws
simulateThrows(r, thrown, called) ==
    /\ r \in DOMAIN runs
    /\ runs[r].pc = "createRecording"
    /\ LET id == Cardinality(db.recordings) + 1 IN
        db' = [db EXCEPT !.recordings = @ \cup
                  {[id |-> id, user_id |-> runs[r].user,
                    file_name |-> runs[r].fileName,
                    duration |-> NominalDuration]}]
    /\ Catch(r, thrown, called)

saveHeartRateDataResolved(r) ==
    /\ r \in DOMAIN runs
    /\ runs[r].pc = "saveHeartRateData"
    /\ db' = [db EXCEPT !.heartRate = @ \cup {runs[r].recId}]
    /\ runs' = [runs EXCEPT ![r].pc = "saveRiskPrediction",
                            ![r].calls = Append(@, "saveRiskPrediction")]
    /\ UNCHANGED <<page, session, user, mode, videoBlob, videoFile, uploading,
                   uploadComplete, recordingId, alerts, caught, navCalls, widget, emitted,
                   arrivals, candidate, verdict, invoked, lastDrag>>

\* the success path without setRecordingId
saveRiskPredictionResolved_NoRecordingId(r) ==
    /\ r \in DOMAIN runs
    /\ runs[r].pc = "saveRiskPrediction"
    /\ db' = [db EXCEPT !.predictions = @ \cup {runs[r].recId}]
    /\ runs' = [runs EXCEPT ![r].pc = "timer"]
    /\ uploadComplete' = IF Live(r) THEN TRUE ELSE uploadComplete
    /\ uploading' = IF Live(r) THEN FALSE ELSE uploading
    /\ UNCHANGED <<page, session, user, mode, videoBlob, videoFile, recordingId, alerts,
                   caught, navCalls, widget, emitted, arrivals, candidate, verdict, invoked, lastDrag>>

\* the last save resolves: setRecordingId, setUploadComplete(true), setTimeout,
\* then finally: setUploading(false)
saveRiskPredictionResolved(r) ==
    /\ r \in DOMAIN runs
    /\ runs[r].pc = "saveRiskPrediction"
    /\ db' = [db EXCEPT !.predictions = @ \cup {runs[r].recId}]
    /\ runs' = [runs EXCEPT ![r].pc = "timer"]
    /\ recordingId' = IF Live(r) THEN runs[r].recId ELSE recordingId
    /\ uploadComplete' = IF Live(r) THEN TRUE ELSE uploadComplete
    /\ uploading' = IF Live(r) THEN FALSE ELSE uploading
    /\ UNCHANGED <<page, session, user, mode, videoBlob, videoFile, alerts, caught, navCalls,
                   widget, emitted, arrivals, candidate, verdict, invoked, lastDrag>>

(***************************************************************************)
(* Navigation.  onNavigate is the page's only way out; the application     *)
(* shows the page it names, which unmounts RecordingPage and drops its     *)
(* state and that of its children.                                         *)
(***************************************************************************)
ShowPage(target) ==
    /\ page' = target
    /\ mode' = "select"
    /\ videoBlob' = NoBlob
    /\ videoFile' = NoFile
    /\ uploading' = FALSE
    /\ uploadComplete' = FALSE
    /\ recordingId' = 0
    /\ widget' = WidgetInit

\* a call of the onNavigate prop by page instance caller, mounted or not
onNavigate(target, id, caller) ==
    /\ navCalls' = navCalls (+) SetToBag({[page |-> target, recordingId |-> id,
                                              mounted |-> (page = "record" /\ session = caller)]})
    /\ ShowPage(target)

\* the timer callback passing the recordingId state its closure captured
timerFired_StaleRecordingId(r) ==
    /\ r \in DOMAIN runs
    /\ runs[r].pc = "timer"
    /\ runs' = [runs EXCEPT ![r].pc = "done"]
    /\ onNavigate("analysis", 0, runs[r].session)
    /\ UNCHANGED <<session, user, db, alerts, caught, emitted, arrivals, candidate, verdict, invoked, lastDrag>>

\* the setTimeout callback of handleProcess; nothing clears the timer
timerFired(r) ==
    /\ r \in DOMAIN runs
    /\ runs[r].pc = "timer"
    /\ runs' = [runs EXCEPT ![r].pc = "done"]
    /\ onNavigate("analysis", runs[r].recId, runs[r].session)
    /\ UNCHANGED <<session, user, db, alerts, caught, emitted, arrivals, candidate, verdict, invoked, lastDrag>>

\* the Back to Dashboard button of the page's nav bar
backToDashboard ==
    /\ page = "record"
    /\ onNavigate("dashboard", 0, session)
    /\ UNCHANGED <<session, user, runs, db, alerts, caught, emitted, arrivals, candidate, verdict, invoked, lastDrag>>

\* the application shows the recording page again: a new instance, initial state
openRecordingPage ==
    /\ page # "record"
    /\ session < MaxSessions
    /\ page' = "record"
    /\ session' = session + 1
    /\ UNCHANGED <<user, mode, videoBlob, videoFile, uploading, uploadComplete,
                   recordingId, runs, db, alerts, caught, navCalls, widget, emitted, arrivals,
                   candidate, verdict, invoked, lastDrag>>

Init ==
    /\ page = "dashboard"
    /\ session = 0
    /\ user \in Users \cup {NULL}
    /\ mode = "select"
    /\ videoBlob = NoBlob
    /\ videoFile = NoFile
    /\ uploading = FALSE
    /\ uploadComplete = FALSE
    /\ recordingId = 0
    /\ runs = <<>>
    /\ db = FreshDb
    /\ alerts = NULL
    /\ caught = NoThrown
    /\ navCalls = EmptyBag
    /\ widget = WidgetInit
    /\ emitted = <<>>
    /\ arrivals = <<>>
    /\ candidate = NoFile
    /\ verdict = NoVerdict
    /\ invoked = 0
    /\ lastDrag = NULL

Settle(r) ==
    \/ ensureUserProfileResolved(r)
    \/ createRecordingResolved(r)
    \/ saveHeartRateDataResolved(r)
    \/ saveRiskPredictionResolved(r)
    \/ \E thrown \in Thrown : Rejected(r, thrown)
    \/ \E thrown \in Thrown :
         \/ simulateThrows(r, thrown, <<"simulateHeartRateData">>)
         \/ simulateThrows(r, thrown, <<"simulateHeartRateData", "simulateRiskPrediction">>)

Next ==
    \/ \E m \in {"record", "upload"} : setMode(m)
    \/ \E blob \in Blobs : handleRecordingComplete(blob)
    \/ \E type \in DragTypes : PageDrag(type)
    \/ \E files \in PageFileLists : PageDrop(files)
    \/ \E files \in PageFileLists : PageChange(files)
    \/ RetakeVideo
    \/ AnalyzeVideo
    \/ \E r \in 1..MaxRuns : Settle(r)
    \/ \E r \in 1..MaxRuns : timerFired(r)
    \/ backToDashboard
    \/ openRecordingPage

Spec == Init /\ [][Next]_vars

LiveSpec ==
    /\ Spec
    /\ \A r \in 1..MaxRuns : WF_vars(Settle(r)) /\ WF_vars(timerFired(r))

(***************************************************************************)
(* HandlerSpec: handleProcess called as a function, whether or not a       *)
(* button that calls it is on screen, in each state the page can be in     *)
(* before a run: no mode chosen, a widget waiting, or an artifact stored.  *)
(***************************************************************************)
HandlerInit ==
    /\ page = "record"
    /\ session = 1
    /\ user \in Users \cup {NULL}
    /\ mode \in {"select", "record", "upload"}
    /\ videoBlob \in (IF mode = "record" THEN Blobs \cup {NoBlob} ELSE {NoBlob})
    /\ videoFile \in (IF mode = "upload"
                      THEN { f \in PageFiles : validateFile(f).ok } \cup {NoFile}
                      ELSE {NoFile})
    /\ uploading = FALSE
    /\ uploadComplete = FALSE
    /\ recordingId = 0
    /\ runs = <<>>
    /\ db = FreshDb
    /\ alerts = NULL
    /\ caught = NoThrown
    /\ navCalls = EmptyBag
    /\ widget = WidgetInit
    /\ emitted = <<>>
    /\ arrivals = <<>>
    /\ candidate = NoFile
    /\ verdict = NoVerdict
    /\ invoked = 0
    /\ lastDrag = NULL

InvokeHandleProcess == page = "record" /\ handleProcess

HandlerNext ==
    \/ InvokeHandleProcess
    \/ \E r \in 1..MaxRuns : Settle(r)
    \/ \E r \in 1..MaxRuns : timerFired(r)

HandlerSpec == HandlerInit /\ [][HandlerNext]_vars

(***************************************************************************)
(* UploaderSpec: one VideoUpload instance under a parent that keeps it     *)
(* mounted and only receives onFileSelect.  arrivals and emitted are the   *)
(* histories of what reached the widget and of what it handed on.          *)
(***************************************************************************)
UploadFiles ==
    PageFiles \cup
    { [type |-> "video/x-msvideo", name |-> <<"m","p","4">>, size |-> 50 * MiB],
      [type |-> "", name |-> <<"c",".","m","p","4","v">>, size |-> maxSize + 1] }

PageIdle ==
    /\ page = "none"
    /\ session = 0
    /\ user = NULL
    /\ mode = "select"
    /\ videoBlob = NoBlob
    /\ videoFile = NoFile
    /\ uploading = FALSE
    /\ uploadComplete = FALSE
    /\ recordingId = 0
    /\ runs = <<>>
    /\ db = FreshDb
    /\ alerts = NULL
    /\ caught = NoThrown
    /\ navCalls = EmptyBag

UploaderInit ==
    /\ PageIdle
    /\ widget = WidgetInit
    /\ emitted = <<>>
    /\ arrivals = <<>>
    /\ candidate = NoFile
    /\ verdict = NoVerdict
    /\ invoked = 0
    /\ lastDrag = NULL

UploaderDrag(type) ==
    /\ widget' = handleDrag(widget, type)
    /\ lastDrag' = type
    /\ UNCHANGED <<pageVars, emitted, arrivals, candidate, verdict, invoked>>

UploaderDrop(files) ==
    /\ Len(arrivals) < MaxArrivals
    /\ LET out == handleDrop(widget, files) IN
        /\ widget' = out.state
        /\ emitted' = emitted \o out.calls
    /\ arrivals' = Append(arrivals, files)
    /\ lastDrag' = "drop"
    /\ UNCHANGED <<pageVars, candidate, verdict, invoked>>

UploaderChange(files) ==
    /\ Len(arrivals) < MaxArrivals
    /\ LET out == handleChange(widget, files) IN
        /\ widget' = out.state
        /\ emitted' = emitted \o out.calls
    /\ arrivals' = Append(arrivals, files)
    /\ UNCHANGED <<pageVars, candidate, verdict, invoked, lastDrag>>

UploaderNext ==
    \/ \E type \in DragTypes : UploaderDrag(type)
    \/ \E files \in FileLists(UploadFiles) : UploaderDrop(files)
    \/ \E files \in FileLists(UploadFiles) : UploaderChange(files)

UploaderSpec == UploaderInit /\ [][UploaderNext]_vars

(***************************************************************************)
(* ValidateSpec: validateFile applied to a candidate file, in a widget     *)
(* that may already show an error from an earlier file.                    *)
(***************************************************************************)
ValidateInit ==
    /\ PageIdle
    /\ candidate \in Files
    /\ verdict = NoVerdict
    /\ invoked = 0
    /\ lastDrag = NULL
    /\ widget \in [dragActive : {FALSE}, error : {NULL, FormatError, SizeError},
                   selectedFile : {NoFile}]
    /\ emitted = <<>>
    /\ arrivals = <<>>

\* validateFile without the setError(null) of its accepting path
Validate_KeepsPriorError ==
    /\ invoked < MaxValidations
    /\ invoked' = invoked + 1
    /\ verdict' = validateFile(candidate)
    /\ widget' = IF validateFile(candidate).ok THEN widget
                 ELSE [widget EXCEPT !.error = validateFile(candidate).error]
    /\ UNCHANGED <<pageVars, emitted, arrivals, candidate, lastDrag>>

Validate ==
    /\ invoked < MaxValidations
    /\ invoked' = invoked + 1
    /\ verdict' = validateFile(candidate)
    /\ widget' = [widget EXCEPT !.error = validateFile(candidate).error]
    /\ UNCHANGED <<pageVars, emitted, arrivals, candidate, lastDrag>>

ValidateSpec == ValidateInit /\ [][Validate]_vars

(***************************************************************************)
(* Properties of the recording page (Spec, LiveSpec).                      *)
(***************************************************************************)
RunsOf(s) == { r \in DOMAIN runs : runs[r].session = s }

InFlight(s) == { r \in RunsOf(s) : runs[r].pc \in Awaited }

Succeeded(s) == { r \in RunsOf(s) : runs[r].pc \in {"timer", "done"} }

ReviewRendered == RecordedReviewRendered \/ UploadedReviewRendered

\* C1: in every session at most one handleProcess invocation is in flight, the
\* mounted page shows uploading exactly while one is, a run that succeeded is the
\* session's last run and its only successful one; so a confirmation starts one
\* pipeline run and no second one can be triggered while uploading is true.
C1_OneRunInFlight ==
    /\ \A s \in 1..session :
        /\ Cardinality(InFlight(s)) <= 1
        /\ Cardinality(Succeeded(s)) <= 1
        /\ \A r \in Succeeded(s) : \A q \in RunsOf(s) : q <= r
    /\ page = "record" => (uploading <=> InFlight(session) # {})

\* a retry is in flight in the session whose first run failed; the review panel
\* is on screen with its buttons disabled
C1_Witness ==
    /\ page = "record" /\ uploading /\ ReviewRendered
    /\ Len(runs) = 2
    /\ runs[1].pc = "failed" /\ runs[1].session = session
    /\ runs[2].pc \in Awaited /\ runs[2].session = session

\* C4: a navigation to the results view is carried out only by a page instance
\* that is still mounted when its timer fires.
C4_NoNavigationAfterTeardown ==
    \A c \in BagToSet(navCalls) : c.page = "analysis" => c.mounted

\* C10: uploadComplete implies a non-null recordingId.
C10_CompleteHasRecordingId == uploadComplete => recordingId # 0

\* the page shows the completion panel and holds the id of the new recording
C10_Witness ==
    /\ page = "record" /\ uploadComplete
    /\ \E r \in InFlight(session) \cup Succeeded(session) :
         runs[r].pc = "timer" /\ recordingId = runs[r].recId

\* a step in which run r leaves the try block through the catch clause
FailStep(r) ==
    r \in DOMAIN runs /\ runs[r].pc \in Awaited /\ runs'[r].pc = "failed"

\* what a failed run of the mounted page leaves: the review panel with the same
\* artifact and mode, not complete, the recording id as it was, the buttons enabled
BackToReviewing ==
    /\ page' = "record" /\ mode' = mode
    /\ videoBlob' = videoBlob /\ videoFile' = videoFile
    /\ (videoBlob' # NoBlob \/ videoFile' # NoFile)
    /\ ~uploadComplete' /\ recordingId' = recordingId
    /\ uploading /\ ~uploading'
    /\ ReviewButtonsEnabled'

\* C2 as claimed: a failing pipeline step takes the page from Processing back to
\* Reviewing and the alert carries the message of whatever was thrown.
C2_FailureShowsThrownMessage ==
    [][\A r \in 1..MaxRuns : (FailStep(r) /\ Live(r)) =>
          /\ BackToReviewing
          /\ alerts' = <<"Failed to process video: ", caught'.message>>]_vars

\* C2 amended: the same, and the alert carries the thrown value's message when
\* that value is an Error and the text 'Unknown error' when it is not.
C2_FailureReturnsToReviewing ==
    [][\A r \in 1..MaxRuns : (FailStep(r) /\ Live(r)) =>
          /\ BackToReviewing
          /\ alerts' = <<"Failed to process video: ",
                         IF caught'.isError THEN caught'.message ELSE "Unknown error">>]_vars

\* createRecording threw an Error: the page is back in review, its message shown
C2_Witness ==
    /\ page = "record" /\ ReviewButtonsEnabled /\ ~uploading
    /\ caught.isError /\ alerts = <<"Failed to process video: ", caught.message>>
    /\ \E r \in RunsOf(session) :
         runs[r].pc = "failed" /\ runs[r].calls = <<"ensureUserProfile", "createRecording">>

\* C3: uploading, once true, becomes false again on every path (every pending
\* call settles), and the step that ends a failed run leaves the review buttons
\* enabled, so that a retry can start.
C3_UploadingIsCleared ==
    /\ uploading ~> ~uploading
    /\ [][\A r \in 1..MaxRuns : (FailStep(r) /\ Live(r)) => ReviewButtonsEnabled']_vars

\* a retry after a failed run has run to its end in the same session, the flag clear
C3_Witness ==
    /\ page = "record" /\ ~uploading
    /\ Len(runs) = 2
    /\ runs[1].pc = "failed" /\ runs[1].session = session
    /\ runs[2].pc = "timer" /\ runs[2].session = session

\* the uploader's verdict on a file, read off the claim: the accepted MIME types,
\* the names of Names that end in an accepted extension, the size limit in bytes
AcceptedTypes == {"video/mp4", "video/webm", "video/quicktime", "video/x-msvideo"}

AcceptedNames ==
    { <<"c","l","i","p",".","m","p","4">>, <<"c",".","W","e","b","M">>,
      <<"c","l","i","p",".","m","o","v">>, <<"C",".","A","V","I">> }

FormatAccepted(f) == f.type \in AcceptedTypes \/ f.name \in AcceptedNames

Rejects(f) == ~FormatAccepted(f) \/ f.size > 104857600

ReasonFor(f) == IF ~FormatAccepted(f) THEN FormatError ELSE SizeError

\* a step of the page's uploader in which the file list brings a file it rejects
RejectedDrop(files) == Len(files) > 0 /\ Rejects(files[1]) /\ PageDrop(files)

RejectedChange(files) == Len(files) > 0 /\ Rejects(files[1]) /\ PageChange(files)

\* what a rejection leaves alone: no onFileSelect call reaches the page, which
\* keeps showing the uploader with no artifact; the widget keeps its selected file
NothingEmitted ==
    /\ videoFile = NoFile /\ videoFile' = NoFile
    /\ videoBlob' = videoBlob /\ mode = "upload" /\ mode' = "upload"
    /\ UploaderRendered'
    /\ widget'.selectedFile = widget.selectedFile

\* C8 as claimed: on a rejected drop or dialog selection nothing is emitted and
\* of the widget's state only the error reason changes.
C8_RejectionChangesOnlyError ==
    [][UploaderRendered => \A files \in PageFileLists :
          (RejectedDrop(files) \/ RejectedChange(files)) =>
             /\ NothingEmitted
             /\ widget' = [widget EXCEPT !.error = ReasonFor(files[1])]]_vars

\* C8 amended: the same, except that a rejected drop also clears dragActive.
C8_RejectionEmitsNothing ==
    [][UploaderRendered => \A files \in PageFileLists :
          /\ RejectedDrop(files) =>
               /\ NothingEmitted
               /\ widget' = [widget EXCEPT !.error = ReasonFor(files[1]),
                                           !.dragActive = FALSE]
          /\ RejectedChange(files) =>
               /\ NothingEmitted
               /\ widget' = [widget EXCEPT !.error = ReasonFor(files[1])]]_vars

\* the page's uploader shows the size reason of a rejected file; no artifact is stored
C8_Witness ==
    /\ UploaderRendered /\ videoFile = NoFile /\ mode = "upload"
    /\ widget.error = SizeError /\ ~widget.dragActive

(***************************************************************************)
(* Properties of validateFile (ValidateSpec).                              *)
(***************************************************************************)
Validated == verdict # NoVerdict

\* C5 as claimed: a file over 100 MiB is rejected with the size reason whatever
\* its type and name.
C5_OversizeGetsSizeReason ==
    (Validated /\ candidate.size > 104857600) =>
        ~verdict.ok /\ verdict.error = SizeError /\ widget.error = SizeError

\* C5 amended: a file over 100 MiB is rejected whatever its type and name; the
\* reason is the size reason when its type or its extension is accepted and the
\* format reason when neither is.
C5_OversizeIsRejected ==
    (Validated /\ candidate.size > 104857600) =>
        /\ ~verdict.ok
        /\ verdict.error = (IF FormatAccepted(candidate) THEN SizeError ELSE FormatError)
        /\ widget.error = verdict.error

\* an oversize file of an accepted type was rejected with the size reason
C5_Witness ==
    /\ Validated /\ candidate.size = 157286400
    /\ candidate.type = "video/quicktime"
    /\ candidate.name = <<"n","o","t","e","s",".","t","x","t">>
    /\ ~verdict.ok /\ widget.error = SizeError

\* C6: a file whose type is accepted or whose name ends in an accepted extension
\* (in any case), of at most 104857600 bytes, is accepted and the error cleared.
C6_AcceptsValidFile ==
    (Validated /\ FormatAccepted(candidate) /\ candidate.size <= 104857600) =>
        verdict.ok /\ widget.error = NULL

\* accepted on its upper-case extension alone, at exactly the limit
C6_Witness ==
    /\ Validated /\ verdict.ok /\ widget.error = NULL
    /\ candidate.type = "" /\ candidate.name = <<"C",".","A","V","I">>
    /\ candidate.size = 104857600

\* C7: a file whose type is not accepted and whose name does not end in an
\* accepted extension is rejected with the format reason, whatever its size.
C7_RejectsWrongFormat ==
    (Validated /\ ~FormatAccepted(candidate)) =>
        ~verdict.ok /\ verdict.error = FormatError /\ widget.error = FormatError

\* a name that only contains an accepted extension, within the size limit
C7_Witness ==
    /\ Validated /\ ~verdict.ok /\ widget.error = FormatError
    /\ candidate.type = "text/plain"
    /\ candidate.name = <<"c",".","m","p","4",".","t","x","t">>
    /\ candidate.size = 52428800

(***************************************************************************)
(* Properties of a mounted VideoUpload (UploaderSpec).                     *)
(***************************************************************************)
\* the arrivals whose first file validateFile accepts
AcceptedArrivals ==
    SelectSeq(arrivals, LAMBDA files : Len(files) > 0 /\ validateFile(files[1]).ok)

\* C9: the widget's selected file is the first file of the latest accepted
\* arrival, onFileSelect was called once per accepted arrival, in order, with
\* that first file, and right after an accepted arrival no error is shown.
C9_LatestAcceptedFileWins ==
    LET acc == AcceptedArrivals IN
    /\ emitted = [i \in 1..Len(acc) |-> acc[i][1]]
    /\ widget.selectedFile = (IF acc = <<>> THEN NoFile ELSE acc[Len(acc)][1])
    /\ (arrivals # <<>> /\ acc # <<>> /\ arrivals[Len(arrivals)] = acc[Len(acc)])
          => widget.error = NULL

\* accepted, rejected, then a two-file list whose first file replaced the first
C9_Witness ==
    /\ Len(arrivals) = 3 /\ Len(emitted) = 2
    /\ Len(arrivals[2]) > 0 /\ ~validateFile(arrivals[2][1]).ok
    /\ Len(arrivals[3]) = 2
    /\ emitted[1] # emitted[2]
    /\ widget.selectedFile = emitted[2] /\ widget.error = NULL

(***************************************************************************)
(* Properties of the stored artifact.                                      *)
(***************************************************************************)
\* the validator's two tests put to an artifact; a Blob has no name
PassesValidation(a) ==
    ~Rejects([type |-> a.type,
              name |-> IF "name" \in DOMAIN a THEN a.name ELSE <<>>,
              size |-> a.size])

StepOrder ==
    <<"ensureUserProfile", "createRecording", "simulateHeartRateData",
      "simulateRiskPrediction", "saveHeartRateData", "saveRiskPrediction">>

IsPrefix(s, t) == Len(s) <= Len(t) /\ \A i \in 1..Len(s) : s[i] = t[i]

\* what each started step finds written by the steps before it
StartedInOrder(r) ==
    /\ Len(runs[r].calls) >= 1
    /\ IsPrefix(runs[r].calls, StepOrder)
    /\ Len(runs[r].calls) >= 2 => runs[r].user \in db.profiles
    /\ Len(runs[r].calls) >= 3 =>
         \E row \in db.recordings :
            /\ row.user_id = runs[r].user /\ row.file_name = runs[r].fileName
            /\ runs[r].pc # "failed" => row.id = runs[r].recId
    /\ Len(runs[r].calls) >= 6 => runs[r].recId \in db.heartRate
    /\ runs[r].pc \in {"timer", "done"} =>
         runs[r].calls = StepOrder /\ runs[r].recId \in db.predictions

\* C12: in every run the steps invoked are an initial part of ensureUserProfile,
\* createRecording, simulateHeartRateData, simulateRiskPrediction,
\* saveHeartRateData, saveRiskPrediction, each started only once the step before
\* it has succeeded; a run only ever adds steps at the end, and a run in which a
\* step failed invokes no further step.
C12_StepsRunInOrder ==
    /\ [](\A r \in DOMAIN runs : StartedInOrder(r))
    /\ [][\A r \in DOMAIN runs :
            /\ IsPrefix(runs[r].calls, runs'[r].calls)
            /\ runs[r].pc = "failed" => runs'[r] = runs[r]]_vars

\* one run failed in saveHeartRateData after four steps had succeeded, and the
\* retry ran all six steps
C12_Witness ==
    /\ Len(runs) = 2
    /\ runs[1].pc = "failed" /\ Len(runs[1].calls) = 5
    /\ runs[1].recId \notin db.heartRate
    /\ runs[2].pc = "done" /\ runs[2].calls = StepOrder

\* how often onNavigate('analysis', id) was called with the id of run r
NavigationsFor(r) ==
    CopiesIn([page |-> "analysis", recordingId |-> runs[r].recId, mounted |-> TRUE], navCalls)
    + CopiesIn([page |-> "analysis", recordingId |-> runs[r].recId, mounted |-> FALSE], navCalls)

AnalysisCalls ==
    { c \in BagToSet(navCalls) : c.page = "analysis" }

\* the state of a run that has passed its last step
SucceededOnce(r) ==
    /\ runs[r].recId # 0
    /\ \E row \in db.recordings :
         row.id = runs[r].recId /\ row.file_name = runs[r].fileName
    /\ Live(r) => uploadComplete /\ recordingId = runs[r].recId
    /\ NavigationsFor(r) = (IF runs[r].pc = "done" THEN 1 ELSE 0)

\* C13: a run whose last step succeeded leaves the page, if it is still
\* mounted, with uploadComplete set and recordingId the id that the run's
\* createRecording returned; its timer then fires, and onNavigate('analysis', id)
\* is called with that same id exactly once, and never for a run that did not
\* succeed.
C13_SuccessNavigatesOnce ==
    /\ [](\A r \in DOMAIN runs : runs[r].pc \in {"timer", "done"} => SucceededOnce(r))
    /\ [](\A c \in AnalysisCalls :
            \E r \in DOMAIN runs : runs[r].pc = "done" /\ runs[r].recId = c.recordingId)
    /\ [][\A r \in DOMAIN runs :
            runs[r].pc = "timer" => runs'[r].pc \in {"timer", "done"}]_vars
    /\ []<>(\A r \in DOMAIN runs : runs[r].pc # "timer")

\* the page was still mounted when the timer of its successful run fired: the
\* application shows the results of that run's recording
C13_Witness ==
    /\ page = "analysis"
    /\ \E r \in DOMAIN runs :
         /\ runs[r].pc = "done" /\ runs[r].calls = StepOrder
         /\ CopiesIn([page |-> "analysis", recordingId |-> runs[r].recId,
                      mounted |-> TRUE], navCalls) = 1

\* the runs whose createRecording resolved
CreatedRecording == { r \in DOMAIN runs : Len(runs[r].calls) >= 3 }

\* the recordings that have neither a heart-rate series nor a prediction
Orphans == { row \in db.recordings : row.id \notin db.heartRate \cup db.predictions }

\* C14: no step of any run removes a row: what the steps before a failing step
\* wrote stays written.  Every run whose createRecording resolved has its own
\* recording row, failed or not, so a retry adds a further row; the series a run
\* saved before its prediction failed stays too.
C14_NoRollback ==
    /\ [][/\ db.profiles \subseteq db'.profiles
          /\ db.recordings \subseteq db'.recordings
          /\ db.heartRate \subseteq db'.heartRate
          /\ db.predictions \subseteq db'.predictions]_vars
    /\ [](/\ Cardinality(db.recordings) = Cardinality(CreatedRecording)
          /\ \A r \in DOMAIN runs :
               runs[r].pc = "failed" /\ Len(runs[r].calls) = 6 =>
                  runs[r].recId \in db.heartRate \ db.predictions)

\* the first run failed after createRecording and left a recording with no series
\* and no prediction; the retry of the same artifact created a second recording
C14_Witness ==
    /\ Len(runs) = 2
    /\ runs[1].pc = "failed" /\ Len(runs[1].calls) \in 3..5
    /\ runs[2].session = runs[1].session /\ runs[2].fileName = runs[1].fileName
    /\ Cardinality(db.recordings) = 2
    /\ \E row \in Orphans : row.id = 1

(***************************************************************************)
(* Properties of handleProcess and handleReset as functions.               *)
(***************************************************************************)
NoArtifact == videoBlob = NoBlob /\ videoFile = NoFile

\* C15: a call of handleProcess made while neither videoBlob nor videoFile is
\* set starts no run, calls no pipeline step, writes nothing and changes no
\* state of the page.
C15_NoArtifactNoOp ==
    [][(page = "record" /\ NoArtifact /\ invoked' # invoked) =>
         UNCHANGED <<pageVars, widget>>]_vars

\* handleProcess was called as often as the model follows it, by a signed-in
\* user whose page holds no artifact, and nothing has happened
C15_Witness ==
    /\ page = "record" /\ user # NULL /\ NoArtifact
    /\ invoked = MaxRuns
    /\ runs = <<>> /\ db = FreshDb /\ ~uploading

\* the values the page's state has when the page is mounted
PageStateInitial ==
    /\ mode = "select"
    /\ NoArtifact
    /\ ~uploading
    /\ ~uploadComplete
    /\ recordingId = 0

\* C16 as stated: in whatever state the mounted page is, the user can reset it,
\* and the reset leaves mode, artifact, uploading, uploadComplete and
\* recordingId at their initial values.
C16_ResetFromAnyState ==
    (page = "record" /\ ~PageStateInitial) => ENABLED (RetakeVideo /\ PageStateInitial')

\* C16: the reset control exists and is enabled exactly while an artifact is
\* stored, no run is in flight and the page is not complete (Reviewing); a
\* reset from there leaves mode, artifact, uploading, uploadComplete and
\* recordingId at their initial values.
C16_ResetFromReviewing ==
    /\ [](page = "record" =>
            (ENABLED RetakeVideo <=> (~NoArtifact /\ ~uploading /\ ~uploadComplete)))
    /\ [][RetakeVideo => PageStateInitial']_vars

\* the page is back in its initial state after a run of this page instance
\* failed: the user has reset it from the review panel
C16_Witness ==
    /\ page = "record" /\ PageStateInitial
    /\ \E r \in RunsOf(session) : runs[r].pc = "failed"
    /\ alerts # NULL

C18_OneAcquisitionPath ==
    /\ mode \in {"select", "record", "upload"}
    /\ ~(videoBlob # NoBlob /\ videoFile # NoFile)
    /\ videoBlob # NoBlob => mode = "record"
    /\ videoFile # NoFile => mode = "upload"

\* a run on an uploaded file failed, the user went back to the selection and
\* now holds a recorded blob, with no file left behind
C18_Witness ==
    /\ page = "record" /\ mode = "record" /\ videoBlob # NoBlob /\ videoFile = NoFile
    /\ \E r \in RunsOf(session) :
         runs[r].pc = "failed" /\ runs[r].fileName # SyntheticName

\* C20: the reset button is enabled in Reviewing when no run is in flight; a
\* click leaves videoBlob and videoFile null, uploadComplete false and the mode
\* selection on screen, from where either variant can be chosen.
C20_ResetReturnsToSelection ==
    /\ []((page = "record" /\ ~NoArtifact /\ ~uploading /\ ~uploadComplete) =>
            ENABLED RetakeVideo)
    /\ [][RetakeVideo =>
            /\ videoBlob' = NoBlob /\ videoFile' = NoFile /\ ~uploadComplete'
            /\ SelectionRendered'
            /\ \A m \in {"record", "upload"} : (ENABLED setMode(m))']_vars

\* a run on a recorded blob failed, the user reset the page, chose the other
\* variant and now holds an uploaded file
C20_Witness ==
    /\ page = "record" /\ mode = "upload" /\ videoFile # NoFile /\ videoBlob = NoBlob
    /\ ~uploading
    /\ \E r \in RunsOf(session) :
         runs[r].pc = "failed" /\ runs[r].fileName = SyntheticName

(***************************************************************************)
(* Properties of repeated validation (ValidateSpec).                       *)
(***************************************************************************)
\* C19: whatever error the widget showed before, validateFile's result and the
\* error it leaves are those the file's type, name and size call for; a second
\* validation of the same file returns the same result and leaves the widget
\* as the first left it.
C19_ValidatePureIdempotent ==
    /\ [](invoked >= 1 =>
            /\ verdict.ok = ~Rejects(candidate)
            /\ verdict.error = (IF Rejects(candidate) THEN ReasonFor(candidate) ELSE NULL)
            /\ widget.error = verdict.error)
    /\ [][invoked >= 1 => (verdict' = verdict /\ widget' = widget)]_vars

\* a file accepted by its extension alone has been validated twice and the
\* widget shows no error
C19_Witness ==
    /\ invoked = 2
    /\ candidate.type \notin AcceptedTypes /\ candidate.name \in AcceptedNames
    /\ verdict.ok /\ widget.error = NULL

(***************************************************************************)
(* Properties of what the page renders.                                    *)
(***************************************************************************)
\* how many of the page's six views are on screen
ViewsRendered ==
    (IF SelectionRendered THEN 1 ELSE 0) + (IF RecorderRendered THEN 1 ELSE 0)
    + (IF UploaderRendered THEN 1 ELSE 0) + (IF RecordedReviewRendered THEN 1 ELSE 0)
    + (IF UploadedReviewRendered THEN 1 ELSE 0) + (IF CompleteRendered THEN 1 ELSE 0)

\* C21: the mounted page renders exactly one of selection, recorder, uploader,
\* recorded review, uploaded review and complete; while an artifact is stored
\* and uploadComplete is false that one view is a review panel, and the step in
\* which a widget hands over its artifact ends with the review panel on screen.
C21_OneViewRendered ==
    /\ [](page = "record" => ViewsRendered = 1)
    /\ []((page = "record" /\ ~NoArtifact /\ ~uploadComplete) =>
            /\ ReviewRendered
            /\ ~(SelectionRendered \/ RecorderRendered \/ UploaderRendered))
    /\ [][(page = "record" /\ NoArtifact /\ ~NoArtifact') =>
            (RecorderRendered \/ UploaderRendered) /\ ReviewRendered']_vars

\* the uploader has just handed over a file after an earlier run on a recorded
\* blob failed: the uploaded review panel alone is on screen
C21_Witness ==
    /\ UploadedReviewRendered /\ ~RecordedReviewRendered /\ ~UploaderRendered
    /\ ~uploading /\ alerts # NULL
    /\ \A r \in RunsOf(session) : runs[r].fileName = SyntheticName
    /\ RunsOf(session) # {}

(***************************************************************************)
(* Properties of the drag flag (UploaderSpec).                             *)
(***************************************************************************)
\* C22: dragActive is false before the first drag event; after that it is true
\* exactly when the last drag event was a dragenter or a dragover, and false
\* when it was a dragleave or a drop, whatever the drop brought and whatever
\* files arrived through the dialog in between.
C22_DragActiveFollowsLastDragEvent ==
    widget.dragActive <=> lastDrag \in {"dragenter", "dragover"}

\* the last drag event was a drop whose file the widget rejected: the error is
\* shown, nothing was handed on and the flag is cleared
C22_Witness ==
    /\ lastDrag = "drop" /\ ~widget.dragActive
    /\ arrivals # <<>> /\ arrivals[Len(arrivals)] # <<>>
    /\ Rejects(arrivals[Len(arrivals)][1])
    /\ widget.error = ReasonFor(arrivals[Len(arrivals)][1])
    /\ emitted = <<>>

(***************************************************************************)
(* Properties of failed runs (Spec).                                       *)
(***************************************************************************)
FailedRuns == { r \in DOMAIN runs : runs[r].pc = "failed" }

\* C23: every onNavigate('analysis', id) made names a recording whose series and
\* prediction are both saved, the recording of a run that went through all six
\* steps.  The step in which a run fails leaves uploadComplete, recordingId and
\* the navigation calls as they were; a failed run never gets a timer, and the
\* page is complete only through a run of its own that succeeded.
C23_NavigationOnlyAfterFullRun ==
    /\ [](\A c \in AnalysisCalls :
            /\ c.recordingId \in db.heartRate \cap db.predictions
            /\ \E r \in DOMAIN runs :
                 runs[r].recId = c.recordingId /\ runs[r].calls = StepOrder)
    /\ []((page = "record" /\ (uploadComplete \/ recordingId # 0)) =>
            \E r \in Succeeded(session) : recordingId = runs[r].recId)
    /\ [][\A r \in DOMAIN runs :
            /\ (runs[r].pc # "failed" /\ runs'[r].pc = "failed") =>
                 UNCHANGED <<uploadComplete, recordingId, navCalls>>
            /\ runs[r].pc = "failed" => runs'[r].pc = "failed"]_vars

\* a run failed in saveRiskPrediction with its series saved; the retry went
\* through, and the only navigation made is the one for the retry's recording
C23_Witness ==
    /\ Len(runs) = 2
    /\ runs[1].pc = "failed" /\ runs[1].calls = StepOrder
    /\ runs[1].recId \in db.heartRate \ db.predictions
    /\ runs[2].pc = "done"
    /\ AnalysisCalls # {}
    /\ \A c \in AnalysisCalls : c.recordingId = runs[2].recId

(***************************************************************************)
(* Properties of the page without a signed-in user (Spec).                 *)
(***************************************************************************)
\* C24: a call of handleProcess made while user is null changes no state of the
\* page, artifact stored or not: no run starts, uploading stays false, nothing
\* is written and no alert is shown, so the review panel stays as it was.
C24_NoUserNoOp ==
    /\ [][(page = "record" /\ user = NULL /\ invoked' # invoked) =>
            UNCHANGED <<pageVars, widget>>]_vars
    /\ [](user = NULL =>
            /\ runs = <<>> /\ db = FreshDb
            /\ ~uploading /\ ~uploadComplete /\ recordingId = 0
            /\ alerts = NULL /\ caught = NoThrown)

\* nobody is signed in, a file is stored, Analyze Video was clicked as often as
\* the model follows it and the review panel is still there with its buttons
\* enabled
C24_Witness ==
    /\ user = NULL /\ invoked = MaxRuns
    /\ UploadedReviewRendered /\ ReviewButtonsEnabled
    /\ runs = <<>> /\ alerts = NULL

====
